---------------------------- MODULE Spec2Model ----------------------------
(***************************************************************************)
(* Model of the calendar agent's event model, interval analysis and        *)
(* meeting classifier (src/calendar_manager.py).                           *)
(*                                                                         *)
(* Times are whole seconds since 00:00 of day 0 in the manager's timezone  *)
(* (CalendarManager.IST); a datetime is one integer, a timedelta is the    *)
(* difference of two.  A title is the sequence of its characters; the two  *)
(* emoji the code looks for are the one-element characters "U+1F3AF" and   *)
(* "U+1F697".                                                              *)
(***************************************************************************)
EXTENDS Integers, Sequences, FiniteSets, TLC

VARIABLES
    events,   \* the CalendarEvent list the gateway holds for the analysed day
    today,    \* the date datetime.now(IST) falls on (a day number)
    result,   \* what the last operation returned
    prev,     \* what the last operation before the latest clock tick returned
    store     \* the raw events the calendar service stores for the day

vars == <<events, today, result, prev, store>>

-----------------------------------------------------------------------------
(* Text: str.lower() and the substring test `needle in haystack`.          *)

UPPER == <<"A","B","C","D","E","F","G","H","I","J","K","L","M",
           "N","O","P","Q","R","S","T","U","V","W","X","Y","Z">>
LOWER == <<"a","b","c","d","e","f","g","h","i","j","k","l","m",
           "n","o","p","q","r","s","t","u","v","w","x","y","z">>

LowerChar(c) ==
    IF \E i \in 1..Len(UPPER) : UPPER[i] = c
    THEN LOWER[CHOOSE i \in 1..Len(UPPER) : UPPER[i] = c]
    ELSE c

RECURSIVE LowerPrefix(_, _)
LowerPrefix(s, n) ==
    IF n = 0 THEN <<>> ELSE Append(LowerPrefix(s, n - 1), LowerChar(s[n]))

lower(s) == LowerPrefix(s, Len(s))

Contains(needle, haystack) ==
    \E i \in 0..(Len(haystack) - Len(needle)) :
        SubSeq(haystack, i + 1, i + Len(needle)) = needle

AnyIn(words, text) == \E k \in 1..Len(words) : Contains(words[k], text)

FOCUS_MARKER == <<"F","o","c","u","s"," ","B","l","o","c","k">>
FOCUS_EMOJI == <<"U+1F3AF">>
COMMUTE_MARKER == <<"C","o","m","m","u","t","e">>
COMMUTE_EMOJI == <<"U+1F697">>

kw_production == <<"p","r","o","d","u","c","t","i","o","n">>
kw_deploy == <<"d","e","p","l","o","y">>
kw_leads == <<"l","e","a","d","s">>
kw_epd == <<"e","p","d">>
kw_gtm == <<"g","t","m">>
kw_critical == <<"c","r","i","t","i","c","a","l">>
kw_urgent == <<"u","r","g","e","n","t">>
kw_daily == <<"d","a","i","l","y">>
kw_migration == <<"m","i","g","r","a","t","i","o","n">>
kw_customer == <<"c","u","s","t","o","m","e","r">>
kw_onboarding == <<"o","n","b","o","a","r","d","i","n","g">>
kw_1on1 == <<"1",":","1">>
kw_weekly == <<"w","e","e","k","l","y">>
kw_sync == <<"s","y","n","c">>
kw_catch == <<"c","a","t","c","h">>
kw_check == <<"c","h","e","c","k">>
kw_list == <<"l","i","s","t">>

CriticalWords == <<kw_production, kw_deploy, kw_leads, kw_epd, kw_gtm,
                   kw_critical, kw_urgent>>
ImportantWords == <<kw_daily, kw_migration, kw_customer, kw_onboarding,
                    kw_1on1, kw_weekly>>
SyncWords == <<kw_sync, kw_catch, kw_check>>

-----------------------------------------------------------------------------
(* Time.                                                                   *)

\* datetime(day, h, m, s) as seconds since 00:00 of day 0
At(day, h, m, s) == day * 86400 + h * 3600 + m * 60 + s

WORK_START_HOUR == 9
WORK_END_HOUR == 22
BACK_TO_BACK_MINUTES == 15
DEFAULT_MIN_DURATION == 30
SHORT_MEETING_MINUTES == 30

\* datetime.now(IST).replace(hour=h, minute=0, second=0, microsecond=0)
ReplaceHour(nowDay, h) == At(nowDay, h, 0, 0)

\* (mutant) x // 60: the floor
IntMinutes_floor(secs) == secs \div 60

\* int(x / 60) for a whole number x of seconds: truncation toward zero
IntMinutes(secs) ==
    IF secs >= 0 THEN secs \div 60 ELSE -((-secs) \div 60)

-----------------------------------------------------------------------------
(* Event model.                                                            *)

ACCEPTED == "accepted"
DECLINED == "declined"

\* The dataclass constructor: stores its arguments, validates nothing.
CalendarEvent(id, title, start, end, status) ==
    [id |-> id, title |-> title, start |-> start, end |-> end, status |-> status]

duration_minutes(e) == IntMinutes(e.end - e.start)

is_focus_block(e) ==
    Contains(FOCUS_MARKER, e.title) \/ Contains(FOCUS_EMOJI, e.title)

is_commute(e) ==
    Contains(COMMUTE_MARKER, e.title) \/ Contains(COMMUTE_EMOJI, e.title)

-----------------------------------------------------------------------------
(* Interval analysis.                                                      *)

\* sorted(events, key=lambda e: e.start): a stable sort, so an event goes
\* behind every event already placed whose start is not later than its own.
RECURSIVE InsertByStart(_, _)
InsertByStart(sorted, e) ==
    IF sorted = <<>> THEN <<e>>
    ELSE IF sorted[Len(sorted)].start <= e.start THEN Append(sorted, e)
    ELSE Append(InsertByStart(SubSeq(sorted, 1, Len(sorted) - 1), e),
                sorted[Len(sorted)])

RECURSIVE SortPrefix(_, _)
SortPrefix(evs, n) ==
    IF n = 0 THEN <<>> ELSE InsertByStart(SortPrefix(evs, n - 1), evs[n])

sorted_by_start(evs) == SortPrefix(evs, Len(evs))

\* (b - a).total_seconds() / 60 >= m, and the same with <, for whole seconds
MinutesAtLeast(secs, m) == secs >= m * 60
\* (mutant) gap <= 15
MinutesBelow_inclusive(secs, m) == secs <= m * 60

MinutesBelow(secs, m) == secs < m * 60

\* (mutant) the first event is compared with >=
BeforeFirst_at_or_after(s, min_duration_minutes, nowDay) ==
    LET work_start == ReplaceHour(nowDay, WORK_START_HOUR) IN
    IF s[1].start >= work_start
       /\ MinutesAtLeast(s[1].start - work_start, min_duration_minutes)
    THEN << <<work_start, s[1].start>> >>
    ELSE <<>>

\* The block before the first event (lines 314-319); nowDay is the date of
\* the datetime.now() read on line 315.
BeforeFirst(s, min_duration_minutes, nowDay) ==
    LET work_start == ReplaceHour(nowDay, WORK_START_HOUR) IN
    IF s[1].start > work_start
       /\ MinutesAtLeast(s[1].start - work_start, min_duration_minutes)
    THEN << <<work_start, s[1].start>> >>
    ELSE <<>>

\* The loop over adjacent pairs (lines 321-327), from pair i on.
RECURSIVE Gaps(_, _, _)
Gaps(s, i, min_duration_minutes) ==
    IF i > Len(s) - 1 THEN <<>>
    ELSE LET gap_start == s[i].end
             gap_end == s[i + 1].start
         IN (IF MinutesAtLeast(gap_end - gap_start, min_duration_minutes)
             THEN << <<gap_start, gap_end>> >> ELSE <<>>)
            \o Gaps(s, i + 1, min_duration_minutes)

\* The block after the last event (lines 329-334); nowDay is the date of the
\* datetime.now() read on line 330.
AfterLast(s, min_duration_minutes, nowDay) ==
    LET work_end == ReplaceHour(nowDay, WORK_END_HOUR)
        last == s[Len(s)]
    IN IF last.end < work_end
          /\ MinutesAtLeast(work_end - last.end, min_duration_minutes)
       THEN << <<last.end, work_end>> >>
       ELSE <<>>

\* (mutant) an empty day gives the whole workday window
_find_free_blocks_whole_day(evs, min_duration_minutes, now1, now2) ==
    IF evs = <<>>
    THEN << <<ReplaceHour(now1, WORK_START_HOUR), ReplaceHour(now2, WORK_END_HOUR)>> >>
    ELSE LET s == sorted_by_start(evs) IN
         BeforeFirst(s, min_duration_minutes, now1)
         \o Gaps(s, 1, min_duration_minutes)
         \o AfterLast(s, min_duration_minutes, now2)

\* _find_free_blocks; the clock is read twice, on dates now1 and now2.
_find_free_blocks(evs, min_duration_minutes, now1, now2) ==
    IF evs = <<>> THEN <<>>
    ELSE LET s == sorted_by_start(evs) IN
         BeforeFirst(s, min_duration_minutes, now1)
         \o Gaps(s, 1, min_duration_minutes)
         \o AfterLast(s, min_duration_minutes, now2)

RECURSIVE CountFrom(_, _)
CountFrom(s, i) ==
    IF i > Len(s) - 1 THEN 0
    ELSE (IF MinutesBelow(s[i + 1].start - s[i].end, BACK_TO_BACK_MINUTES)
          THEN 1 ELSE 0) + CountFrom(s, i + 1)

_count_back_to_back(evs) ==
    IF Len(evs) < 2 THEN 0 ELSE CountFrom(sorted_by_start(evs), 1)

-----------------------------------------------------------------------------
(* Meeting classifier.                                                     *)

IsMeeting(e) == ~is_focus_block(e) /\ ~is_commute(e)

\* (mutant) the duration test moved in front of the sync keywords
Classify_short_first(meeting) ==
    LET title_lower == lower(meeting.title) IN
    IF AnyIn(CriticalWords, title_lower) THEN "critical"
    ELSE IF AnyIn(ImportantWords, title_lower) THEN "important"
    ELSE IF duration_minutes(meeting) <= SHORT_MEETING_MINUTES
            \/ Contains(kw_list, title_lower) THEN "cancelable"
    ELSE "moderate"

\* The if/elif chain of the loop body (lines 367-382): the tier's name.
Classify(meeting) ==
    LET title_lower == lower(meeting.title) IN
    IF AnyIn(CriticalWords, title_lower) THEN "critical"
    ELSE IF AnyIn(ImportantWords, title_lower) THEN "important"
    ELSE IF AnyIn(SyncWords, title_lower) THEN "moderate"
    ELSE IF duration_minutes(meeting) <= SHORT_MEETING_MINUTES
            \/ Contains(kw_list, title_lower) THEN "cancelable"
    ELSE "moderate"

EmptyTiers ==
    [critical |-> <<>>, important |-> <<>>, moderate |-> <<>>, cancelable |-> <<>>]

\* (mutant) each meeting is put at the front of its tier's list
RECURSIVE RankFrom_prepend(_, _, _)
RankFrom_prepend(meetings, i, acc) ==
    IF i > Len(meetings) THEN acc
    ELSE LET t == Classify(meetings[i]) IN
         RankFrom_prepend(meetings, i + 1,
                          [acc EXCEPT ![t] = <<meetings[i]>> \o @])

\* The loop of lines 366-382 from meeting i on: each meeting is appended to
\* the list of its tier.
RECURSIVE RankFrom(_, _, _)
RankFrom(meetings, i, acc) ==
    IF i > Len(meetings) THEN acc
    ELSE LET t == Classify(meetings[i]) IN
         RankFrom(meetings, i + 1, [acc EXCEPT ![t] = Append(@, meetings[i])])

\* (mutant) the focus and commute blocks are not filtered out
stack_rank_meetings_unfiltered(evs) ==
    RankFrom(evs, 1, EmptyTiers)

stack_rank_meetings(evs) ==
    RankFrom(SelectSeq(evs, IsMeeting), 1, EmptyTiers)

-----------------------------------------------------------------------------
(* Gateway reads and the schedule analysis.                                *)

\* get_events_in_range's loop (lines 116-122) over the items of the day
get_events(items, include_declined) ==
    LET Keep(e) == include_declined \/ e.status # DECLINED IN
    SelectSeq(items, Keep)

RECURSIVE SumDurations(_, _)
SumDurations(evs, i) ==
    IF i > Len(evs) THEN 0
    ELSE duration_minutes(evs[i]) + SumDurations(evs, i + 1)

\* analyze_schedule on the fetched list; focus_hours and meeting_hours are
\* total_focus_time / 60 and total_meeting_time / 60.
analyze_schedule(evs, now1, now2) ==
    [total_events |-> Len(evs),
     total_meetings |-> Len(SelectSeq(evs, IsMeeting)),
     total_focus_time |-> SumDurations(SelectSeq(evs, is_focus_block), 1),
     total_meeting_time |-> SumDurations(SelectSeq(evs, IsMeeting), 1),
     free_blocks |-> _find_free_blocks(evs, DEFAULT_MIN_DURATION, now1, now2),
     back_to_back_count |-> _count_back_to_back(evs)]

-----------------------------------------------------------------------------
(* The inputs the model draws from.                                        *)

MaxEvents == 3   \* longest event list built one event at a time
MaxDay == 1      \* the clock runs over the dates 0..MaxDay

T_ProductionIncidentReview == <<"P","r","o","d","u","c","t","i","o","n"," ","I","n","c","i","d","e","n","t"," ","R","e","v","i","e","w">>
T_DailyStandup == <<"D","a","i","l","y"," ","S","t","a","n","d","u","p">>
T_TeamSync == <<"T","e","a","m"," ","S","y","n","c">>
T_QuickListReview == <<"Q","u","i","c","k"," ","L","i","s","t"," ","R","e","v","i","e","w">>
T_WeeklyProductionSync == <<"W","e","e","k","l","y"," ","P","r","o","d","u","c","t","i","o","n"," ","S","y","n","c">>
T_FocusBlockDeploy == <<"U+1F3AF"," ","F","o","c","u","s"," ","B","l","o","c","k",":"," ","D","e","p","l","o","y">>
T_Commute == <<"U+1F697"," ","C","o","m","m","u","t","e">>
T_Lunch == <<"L","u","n","c","h">>
T_NoTitle == <<"N","o"," ","T","i","t","l","e">>

\* Every event of the model falls on date 1; the clock shows any of the
\* dates 0..MaxDay.
On(h, m) == At(1, h, m, 0)

\* Start and end times of the events built one at a time for the interval
\* analysis: before the 09:00-22:00 window, on its edge and inside it, with
\* gaps of 0, 15, 30 and 45 minutes, and every order of start and end.
IntervalTimes == {On(8, 45), On(9, 0), On(9, 30)}

\* Titles and end times of the events built one at a time for the classifier;
\* all start at 09:00.  30 min 40 s is a duration_minutes of 30, 31 min is 31;
\* the titles without a keyword of the first three rules come with both.
Short == At(1, 9, 30, 40)
Long == At(1, 9, 31, 0)
RankEvents ==
    { <<T_ProductionIncidentReview, Long>>, <<T_DailyStandup, Short>>,
      <<T_TeamSync, Short>>, <<T_WeeklyProductionSync, Short>>,
      <<T_QuickListReview, Short>>, <<T_QuickListReview, Long>>,
      <<T_Lunch, Short>>, <<T_Lunch, Long>>,
      <<T_FocusBlockDeploy, Long>>, <<T_Commute, Short>> }

\* Start and end times of a single constructed event, to the second.
FineOffsets == {0, 30, 40, 60, 90, 150, 1800, 1830, 1840, 1860, 3600, 3640}
FineTimes == {On(9, 0) + o : o \in FineOffsets}

MinDurations == {0, DEFAULT_MIN_DURATION, 60}

Ev(id, title, sh, sm, eh, em) ==
    CalendarEvent(id, title, On(sh, sm), On(eh, em), ACCEPTED)

\* Whole days as the gateway returns them (ordered by start time).
ThreeMeetings ==
    << Ev(1, T_DailyStandup, 9, 0, 10, 0),
       Ev(2, T_ProductionIncidentReview, 10, 5, 11, 0),
       Ev(3, T_TeamSync, 11, 0, 11, 30) >>
QuickList == << Ev(1, T_QuickListReview, 14, 0, 15, 0) >>
EarlyStart == << Ev(1, T_NoTitle, 8, 0, 9, 30) >>
Nested ==
    << Ev(1, T_NoTitle, 9, 0, 12, 0),
       Ev(2, T_NoTitle, 9, 30, 10, 0),
       Ev(3, T_NoTitle, 11, 0, 11, 30) >>
BeforeWindow ==
    << Ev(1, T_NoTitle, 7, 0, 7, 30), Ev(2, T_NoTitle, 8, 0, 8, 30) >>
EarlyBird == << Ev(1, T_NoTitle, 7, 0, 8, 0) >>
LateNight ==
    << Ev(1, T_NoTitle, 21, 0, 22, 30), Ev(2, T_NoTitle, 23, 0, 23, 30) >>

Scenarios == {ThreeMeetings, QuickList, EarlyStart, Nested, BeforeWindow,
              EarlyBird, LateNight}

-----------------------------------------------------------------------------
(* State machine.                                                          *)

NoResult ==
    [op |-> "none", input |-> <<>>, min |-> 0, now1 |-> 0, now2 |-> 0,
     blocks |-> <<>>, count |-> 0, tiers |-> EmptyTiers, value |-> 0,
     total_events |-> 0, total_meetings |-> 0,
     total_focus_time |-> 0, total_meeting_time |-> 0,
     found |-> FALSE, target |-> 0, returned |-> FALSE]

Init ==
    /\ events = <<>>
    /\ today = 0
    /\ result = NoResult
    /\ prev = NoResult
    /\ store = <<>>

\* A gateway item is parsed into a CalendarEvent and joins the day's list
\* (_parse_event, lines 151-161); ids are unique within the calendar.
AddEvent(title, start, end) ==
    /\ result = NoResult
    /\ Len(events) < MaxEvents
    /\ events' = Append(events,
                        CalendarEvent(Len(events) + 1, title, start, end, ACCEPTED))
    /\ result' = NoResult
    /\ prev' = NoResult
    /\ UNCHANGED <<today, store>>

\* The gateway returns one of the whole days above.
FetchScenario ==
    /\ result = NoResult
    /\ events = <<>>
    /\ \E s \in Scenarios : events' = s
    /\ result' = NoResult
    /\ prev' = NoResult
    /\ UNCHANGED <<today, store>>

\* The event model alone: one event is constructed from any start and end.
NewEvent ==
    /\ \E start \in FineTimes, end \in FineTimes :
          events' = << CalendarEvent(1, T_NoTitle, start, end, ACCEPTED) >>
    /\ result' = NoResult
    /\ UNCHANGED <<today, prev, store>>

ReadDuration ==
    /\ events # <<>>
    /\ result' = [NoResult EXCEPT !.op = "duration_minutes",
                                  !.input = events,
                                  !.value = duration_minutes(events[Len(events)])]
    /\ UNCHANGED <<events, today, prev, store>>

\* Midnight passes.
Tick ==
    /\ today < MaxDay
    /\ today' = today + 1
    /\ prev' = result
    /\ result' = NoResult
    /\ UNCHANGED <<events, store>>

\* The dates the second datetime.now() of a call can fall on.
SecondRead == {d \in {today, today + 1} : d <= MaxDay}

FindFreeBlocks ==
    \E m \in MinDurations, now2 \in SecondRead :
        /\ result = NoResult
        /\ result' = [NoResult EXCEPT
                         !.op = "_find_free_blocks", !.input = events,
                         !.min = m, !.now1 = today, !.now2 = now2,
                         !.blocks = _find_free_blocks(events, m, today, now2)]
        /\ today' = now2
        /\ UNCHANGED <<events, prev, store>>

CountBackToBack ==
    /\ result = NoResult
    /\ result' = [NoResult EXCEPT
                     !.op = "_count_back_to_back", !.input = events,
                     !.count = _count_back_to_back(events)]
    /\ UNCHANGED <<events, today, prev, store>>

\* stack_rank_meetings() with no argument fetches today's events first.
StackRank ==
    LET fetched == get_events(events, FALSE) IN
    /\ result = NoResult
    /\ result' = [NoResult EXCEPT
                     !.op = "stack_rank_meetings", !.input = fetched,
                     !.tiers = stack_rank_meetings(fetched)]
    /\ UNCHANGED <<events, today, prev, store>>

AnalyzeSchedule ==
    \E now2 \in SecondRead :
        LET fetched == get_events(events, FALSE)
            a == analyze_schedule(fetched, today, now2)
        IN /\ result = NoResult
           /\ result' = [NoResult EXCEPT
                            !.op = "analyze_schedule", !.input = fetched,
                            !.min = DEFAULT_MIN_DURATION,
                            !.now1 = today, !.now2 = now2,
                            !.blocks = a.free_blocks,
                            !.count = a.back_to_back_count,
                            !.total_events = a.total_events,
                            !.total_meetings = a.total_meetings,
                            !.total_focus_time = a.total_focus_time,
                            !.total_meeting_time = a.total_meeting_time]
           /\ today' = now2
           /\ UNCHANGED <<events, prev, store>>

\* The command that asked for the result has shown it and ends; the next
\* command starts from the gateway again.
Return ==
    /\ result # NoResult
    /\ result' = NoResult
    /\ UNCHANGED <<events, today, prev, store>>

AddIntervalEvent ==
    \E start \in IntervalTimes, end \in IntervalTimes :
        AddEvent(T_NoTitle, start, end)

AddRankEvent ==
    \E te \in RankEvents : AddEvent(te[1], On(9, 0), te[2])

\* The event model: construction and duration_minutes.
NextEvent == NewEvent \/ ReadDuration
SpecEvent == Init /\ [][NextEvent]_vars

\* The interval analysis over the day's list, at any clock date.
NextInterval ==
    \/ AddIntervalEvent
    \/ FetchScenario
    \/ (result = NoResult /\ Tick)
    \/ FindFreeBlocks
    \/ CountBackToBack
    \/ AnalyzeSchedule
    \/ Return
SpecInterval == Init /\ [][NextInterval]_vars

\* The classifier over the day's list.
NextRank == AddRankEvent \/ FetchScenario \/ StackRank \/ Return
SpecRank == Init /\ [][NextRank]_vars

-----------------------------------------------------------------------------
(* Properties of the classifier.                                           *)

Range(seq) == {seq[i] : i \in 1..Len(seq)}

TierNames == {"critical", "important", "moderate", "cancelable"}

Ranked == result.op = "stack_rank_meetings"

\* How many times event e stands in tier t of the returned dict
TimesIn(e, t) ==
    Cardinality({k \in 1..Len(result.tiers[t]) : result.tiers[t][k] = e})

RECURSIVE SumOver(_, _)
SumOver(S, e) ==
    IF S = {} THEN 0
    ELSE LET t == CHOOSE x \in S : TRUE IN TimesIn(e, t) + SumOver(S \ {t}, e)

\* C1: the four tiers are pairwise disjoint and their union is exactly the
\* input events that are neither focus blocks nor commute blocks: each such
\* event stands once in exactly one tier, a focus or commute block in none,
\* and nothing else is in a tier.
C1_TiersPartitionMeetings ==
    Ranked =>
        /\ \A i \in 1..Len(result.input) :
              LET e == result.input[i] IN
              SumOver(TierNames, e) =
                  IF is_focus_block(e) \/ is_commute(e) THEN 0 ELSE 1
        /\ \A t \in TierNames : Range(result.tiers[t]) \subseteq Range(result.input)
        /\ \A t, u \in TierNames :
              t # u => Range(result.tiers[t]) \cap Range(result.tiers[u]) = {}

C1_Witness ==
    /\ Ranked
    /\ Len(result.input) = 3
    /\ \E e \in Range(result.input) : is_focus_block(e)
    /\ \E e \in Range(result.input) : is_commute(e)
    /\ \E e \in Range(result.input) : e \in Range(result.tiers["critical"])

\* The ordered rule list of the specification, first match wins, on the
\* lower-cased title and the duration in minutes.
RuleList(title_lower, minutes) ==
    << [hit |-> AnyIn(CriticalWords, title_lower), tier |-> "critical"],
       [hit |-> AnyIn(ImportantWords, title_lower), tier |-> "important"],
       [hit |-> AnyIn(SyncWords, title_lower), tier |-> "moderate"],
       [hit |-> minutes <= 30 \/ Contains(kw_list, title_lower),
        tier |-> "cancelable"],
       [hit |-> TRUE, tier |-> "moderate"] >>

FirstMatch(rules) ==
    rules[CHOOSE k \in 1..Len(rules) :
              rules[k].hit /\ \A j \in 1..(k - 1) : ~rules[j].hit].tier

\* C2: every non-focus, non-commute event is put in the tier the ordered
\* rule list gives for its lower-cased title and its duration_minutes,
\* first match wins; a title with keywords of several tiers gets the
\* earliest, and a meeting of 30 minutes or less whose title contains
\* sync, catch or check is moderate.
C2_TierIsFirstMatchingRule ==
    Ranked =>
        \A i \in 1..Len(result.input) :
            LET e == result.input[i]
                title_lower == lower(e.title)
                minutes == duration_minutes(e)
            IN ~(is_focus_block(e) \/ is_commute(e)) =>
                  /\ TimesIn(e, FirstMatch(RuleList(title_lower, minutes))) = 1
                  /\ (AnyIn(SyncWords, title_lower)
                      /\ ~AnyIn(CriticalWords, title_lower)
                      /\ ~AnyIn(ImportantWords, title_lower))
                        => TimesIn(e, "moderate") = 1

C2_Witness ==
    /\ Ranked
    /\ \E e \in Range(result.tiers["moderate"]) :
          e.title = T_TeamSync /\ duration_minutes(e) <= 30
    /\ \E e \in Range(result.tiers["critical"]) : e.title = T_WeeklyProductionSync
    /\ \E e \in Range(result.tiers["cancelable"]) :
          e.title = T_Lunch /\ duration_minutes(e) = 30 /\ e.end - e.start > 1800

\* Position of an event of the input list
PosIn(seq, e) == CHOOSE i \in 1..Len(seq) : seq[i] = e

\* C9: within each tier the events stand in the relative order they have
\* in the input list.
C9_TiersKeepInputOrder ==
    Ranked =>
        \A t \in TierNames :
            \A k, l \in 1..Len(result.tiers[t]) :
                k < l <=> PosIn(result.input, result.tiers[t][k])
                            < PosIn(result.input, result.tiers[t][l])

C9_Witness ==
    /\ Ranked
    /\ Len(result.tiers["moderate"]) = 2
    /\ Len(result.tiers["cancelable"]) = 1
    /\ result.input[2] \in Range(result.tiers["cancelable"])

-----------------------------------------------------------------------------
(* Properties of the interval analysis.                                    *)

Injective(p) == \A i, j \in DOMAIN p : p[i] = p[j] => i = j

\* The order a stable ascending sort by start puts the list in: position k
\* of the sorted list holds evs[p[k]].
StableOrder(evs) ==
    CHOOSE p \in [1..Len(evs) -> 1..Len(evs)] :
        /\ Injective(p)
        /\ \A i, j \in 1..Len(evs) :
              i < j => \/ evs[p[i]].start < evs[p[j]].start
                       \/ /\ evs[p[i]].start = evs[p[j]].start
                          /\ p[i] < p[j]

\* C3: _count_back_to_back returns the number of adjacent pairs, in the list
\* sorted by start, whose gap next.start - current.end is under 15 minutes
\* (a negative gap counts, a gap of exactly 15 minutes does not); 0 for
\* fewer than two events; 2 for 09:00-10:00, 10:05-11:00, 11:00-11:30.
C3_CountIsCloseAdjacentPairs ==
    result.op \in {"_count_back_to_back", "analyze_schedule"} =>
        LET evs == result.input
            p == StableOrder(evs)
        IN /\ result.count =
                 Cardinality({i \in 1..(Len(evs) - 1) :
                     evs[p[i + 1]].start - evs[p[i]].end < 15 * 60})
           /\ (Len(evs) < 2 => result.count = 0)
           /\ (evs = ThreeMeetings => result.count = 2)

C3_Witness ==
    /\ result.op = "_count_back_to_back"
    /\ result.input = ThreeMeetings
    /\ result.count = 2

\* Two intervals share more than a point of time
Overlap(s1, e1, s2, e2) == s1 < e2 /\ s2 < e1

SortedNonOverlapping(evs) ==
    \A i, j \in 1..Len(evs) :
        i < j => /\ evs[i].start <= evs[j].start
                 /\ ~Overlap(evs[i].start, evs[i].end, evs[j].start, evs[j].end)

\* C4: for a sorted, pairwise non-overlapping event list and any
\* min_duration_minutes, every returned free block lasts at least
\* min_duration_minutes and intersects no event of the list.  Stated for
\* the lists whose events do not end before they start, analysed with the
\* clock on the day of the events.
C4_FreeBlocksAreFree ==
    (/\ result.op = "_find_free_blocks"
     /\ result.now1 = 1 /\ result.now2 = 1
     /\ \A i \in 1..Len(result.input) :
           result.input[i].end >= result.input[i].start
     /\ SortedNonOverlapping(result.input)) =>
        \A k \in 1..Len(result.blocks) :
            LET b == result.blocks[k] IN
            /\ b[2] - b[1] >= result.min * 60
            /\ \A i \in 1..Len(result.input) :
                  ~Overlap(b[1], b[2], result.input[i].start, result.input[i].end)

\* C5 as stated: for an empty day the analysis returns the whole workday
\* window as the one free block, no back-to-back pair and no event.
C5_EmptyDayIsOneFreeBlock ==
    (result.op = "analyze_schedule" /\ result.input = <<>>) =>
        /\ \E d \in 0..(MaxDay + 1) :
              result.blocks = << <<At(d, 9, 0, 0), At(d, 22, 0, 0)>> >>
        /\ result.count = 0
        /\ result.total_events = 0

\* C5 as amended: for an empty day the analysis returns no free block, no
\* back-to-back pair and no event.
C5_EmptyDayHasNoFreeBlock ==
    (result.op = "analyze_schedule" /\ result.input = <<>>) =>
        /\ result.blocks = <<>>
        /\ result.count = 0
        /\ result.total_events = 0

C5_Witness ==
    /\ result.op = "analyze_schedule"
    /\ result.input = <<>>
    /\ events = <<>>

\* C6: every returned free block lies within the workday window of the
\* analysed day, 09:00 to 22:00 (here with the clock on that day).
C6_FreeBlocksInsideWindow ==
    (/\ result.op \in {"_find_free_blocks", "analyze_schedule"}
     /\ result.now1 = 1 /\ result.now2 = 1) =>
        \A k \in 1..Len(result.blocks) :
            /\ result.blocks[k][1] >= On(9, 0)
            /\ result.blocks[k][2] <= On(22, 0)

\* C10: two runs of _find_free_blocks, or of _count_back_to_back, on the
\* same event list with the same minimum duration return the same result,
\* whatever the clock shows.
C10_SameInputSameResult ==
    (/\ result.op \in {"_find_free_blocks", "_count_back_to_back"}
     /\ prev.op = result.op
     /\ prev.input = result.input
     /\ prev.min = result.min) =>
        /\ prev.blocks = result.blocks
        /\ prev.count = result.count

\* The interval analysis run again after midnight.
NextPurity ==
    \/ AddIntervalEvent
    \/ FetchScenario
    \/ Tick
    \/ FindFreeBlocks
    \/ CountBackToBack
    \/ Return
SpecPurity == Init /\ [][NextPurity]_vars

\* C11: an empty list gives no free block and a back-to-back count of zero,
\* and the call returns (no error).
C11_EmptyInputGivesNothing ==
    result.input = <<>> =>
        /\ result.op = "_find_free_blocks" => result.blocks = <<>>
        /\ result.op = "_count_back_to_back" => result.count = 0

C11_Witness ==
    /\ result.op = "_find_free_blocks"
    /\ result.input = <<>>
    /\ result.min = 0
    /\ result.blocks = <<>>

Found == result.op \in {"_find_free_blocks", "analyze_schedule"}

\* The earliest event by start, and the last one by start, as the code's
\* sort leaves them
Earliest(evs) == evs[StableOrder(evs)[1]]
LastByStart(evs) == evs[StableOrder(evs)[Len(evs)]]

\* C12 as stated: if the earliest event starts at or before workday start,
\* no returned block begins at workday start; if the last event (by start)
\* ends at or after workday end, no returned block ends at workday end.
\* (Here with the clock on the day of the events.)
C12_NoBlockAtWindowEdge ==
    (Found /\ result.input # <<>> /\ result.now1 = 1 /\ result.now2 = 1) =>
        /\ Earliest(result.input).start <= On(9, 0) =>
              \A k \in 1..Len(result.blocks) : result.blocks[k][1] # On(9, 0)
        /\ LastByStart(result.input).end >= On(22, 0) =>
              \A k \in 1..Len(result.blocks) : result.blocks[k][2] # On(22, 0)

\* C12 as amended: if the earliest event starts at or before workday start,
\* no block is emitted for the time before it: every returned block begins
\* at the end of an event of the list; if the last event (by start) ends at
\* or after workday end, every returned block ends at the start of an event
\* of the list.  For the single event 08:00-09:30 analysed on its day the
\* result is exactly [(09:30, 22:00)].
C12_NoBlockBeforeEarlyFirstEvent ==
    (Found /\ result.input # <<>>) =>
        LET evs == result.input
            work_start == At(result.now1, 9, 0, 0)
            work_end == At(result.now2, 22, 0, 0)
        IN /\ Earliest(evs).start <= work_start =>
                 \A k \in 1..Len(result.blocks) :
                     \E i \in 1..Len(evs) : result.blocks[k][1] = evs[i].end
           /\ LastByStart(evs).end >= work_end =>
                 \A k \in 1..Len(result.blocks) :
                     \E i \in 1..Len(evs) : result.blocks[k][2] = evs[i].start
           /\ (evs = EarlyStart /\ result.now1 = 1 /\ result.now2 = 1) =>
                 result.blocks = << <<On(9, 30), On(22, 0)>> >>

C12_Witness ==
    /\ result.op = "_find_free_blocks"
    /\ result.input = EarlyStart
    /\ result.now1 = 1 /\ result.now2 = 1
    /\ result.blocks = << <<On(9, 30), On(22, 0)>> >>

\* The lists that differ from evs only in the order of events with the same
\* start: every event keeps its place or swaps it with events of its start.
TieReorderings(evs) ==
    { [k \in 1..Len(evs) |-> evs[p[k]]] :
        p \in { q \in [1..Len(evs) -> 1..Len(evs)] :
                  /\ Injective(q)
                  /\ \A k \in 1..Len(evs) : evs[q[k]].start = evs[k].start } }

\* C13: the order in which events of the same start stand in the input
\* changes neither the back-to-back count nor the set of free blocks.
\* (Here for events of positive duration, analysed with the clock on their
\* day.)
C13_TieOrderIrrelevant ==
    (/\ result.op = "_find_free_blocks" => (result.now1 = 1 /\ result.now2 = 1)
     /\ \A i \in 1..Len(result.input) :
           result.input[i].end > result.input[i].start) =>
        \A evs2 \in TieReorderings(result.input) :
            /\ result.op = "_find_free_blocks" =>
                  Range(_find_free_blocks(evs2, result.min, result.now1, result.now2))
                      = Range(result.blocks)
            /\ result.op = "_count_back_to_back" =>
                  _count_back_to_back(evs2) = result.count

\* C15: for every event list, overlapping and nested events included, no
\* returned free block intersects an event of the list.  (Here for events
\* of positive duration, analysed with the clock on their day.)
C15_NoBlockOverAnEvent ==
    (/\ Found
     /\ result.now1 = 1 /\ result.now2 = 1
     /\ \A i \in 1..Len(result.input) :
           result.input[i].end > result.input[i].start) =>
        \A k \in 1..Len(result.blocks) :
            \A i \in 1..Len(result.input) :
                ~Overlap(result.blocks[k][1], result.blocks[k][2],
                         result.input[i].start, result.input[i].end)

-----------------------------------------------------------------------------
(* Properties of the event model.                                          *)

\* C7: no Event whose end is earlier than its start ever exists.
C7_NoEventEndsBeforeStart ==
    \A i \in 1..Len(events) : events[i].end >= events[i].start

\* round(x / 60) for a whole number x of seconds: to the nearest minute,
\* a half to the even one
RoundMinutes(secs) ==
    LET q == secs \div 60
        r == secs % 60
    IN IF r < 30 THEN q
       ELSE IF r > 30 THEN q + 1
       ELSE IF q % 2 = 0 THEN q ELSE q + 1

Abs(x) == IF x < 0 THEN -x ELSE x

\* C8 as stated: duration_minutes is (end - start) in minutes rounded to the
\* nearest whole minute (here for the events that do not end before they
\* start).
C8_DurationIsRounded ==
    (/\ result.op = "duration_minutes"
     /\ result.input[1].end >= result.input[1].start) =>
        result.value = RoundMinutes(result.input[1].end - result.input[1].start)

\* C8 as amended: duration_minutes is (end - start) in minutes with the
\* fraction dropped (truncated toward zero): the whole minutes of the span,
\* with the sign of the span.
C8_DurationIsTruncated ==
    result.op = "duration_minutes" =>
        LET span == result.input[1].end - result.input[1].start IN
        /\ 60 * Abs(result.value) <= Abs(span)
        /\ Abs(span) < 60 * (Abs(result.value) + 1)
        /\ result.value * span >= 0

C8_Witness ==
    /\ result.op = "duration_minutes"
    /\ result.input[1].end - result.input[1].start = 30 * 60 + 40
    /\ result.value = 30

-----------------------------------------------------------------------------
(* The calendar service: stored events, their parsing, creation and the    *)
(* decline command.  Every stored event lies on the day the commands ask   *)
(* for.                                                                    *)

TENTATIVE == "tentative"
NEEDS_ACTION == "needsAction"

\* A stored event: lists two of the keys _parse_event reads -- the summary
\* and the attendees, each attendee with its 'self' flag and responseStatus.
Item(id, summary, start, end, attendees) ==
    [id |-> id, summary |-> summary, start |-> start, end |-> end,
     attendees |-> attendees]

\* Index of the first attendee marked self, 0 if there is none: where the
\* loops of lines 140-143 and 232-235 break.
FirstSelf(attendees) ==
    IF \E k \in 1..Len(attendees) : attendees[k].self
    THEN CHOOSE k \in 1..Len(attendees) :
             attendees[k].self /\ \A j \in 1..(k - 1) : ~attendees[j].self
    ELSE 0

_parse_event(event_data) ==
    LET attendees == event_data.attendees
        k == FirstSelf(attendees)
        status == IF k = 0 THEN ACCEPTED ELSE attendees[k].responseStatus
    IN CalendarEvent(event_data.id, event_data.summary,
                     event_data.start, event_data.end, status)

\* get_today_events: the service lists the stored events ordered by start
\* time, each is parsed, the declined ones are dropped unless asked for.
get_today_events(stored, include_declined) ==
    get_events(sorted_by_start([k \in 1..Len(stored) |-> _parse_event(stored[k])]),
               include_declined)

\* find_event_by_title: the first of today's events, declined ones left
\* out, whose lower-cased title contains the lower-cased substring, as a
\* list of one event; the empty list is None.
find_event_by_title(stored, title_substring) ==
    LET evs == get_today_events(stored, FALSE)
        Hit(k) == Contains(lower(title_substring), lower(evs[k].title))
    IN IF \E k \in 1..Len(evs) : Hit(k)
       THEN << evs[CHOOSE k \in 1..Len(evs) :
                       Hit(k) /\ \A j \in 1..(k - 1) : ~Hit(j)] >>
       ELSE <<>>

Outcomes == {"ok", "get_fails", "patch_fails"}

\* update_event_status: the event is read, the first attendee marked self
\* gets the new status, the attendee list is patched back.  An exception of
\* either service call is caught and gives False.
update_event_status(stored, event_id, new_status, outcome) ==
    IF outcome = "get_fails" \/ ~\E k \in 1..Len(stored) : stored[k].id = event_id
    THEN [returned |-> FALSE, stored |-> stored]
    ELSE LET n == CHOOSE k \in 1..Len(stored) : stored[k].id = event_id
             event == stored[n]
             k == FirstSelf(event.attendees)
             attendees ==
                 IF k = 0 THEN event.attendees
                 ELSE [event.attendees EXCEPT ![k].responseStatus = new_status]
         IN IF outcome = "patch_fails"
            THEN [returned |-> FALSE, stored |-> stored]
            ELSE [returned |-> TRUE,
                  stored |-> [stored EXCEPT ![n].attendees = attendees]]

decline_event(stored, event_id, outcome) ==
    update_event_status(stored, event_id, DECLINED, outcome)

\* f"<target emoji> Focus Block: {title}"
FocusTitle(title) ==
    <<"U+1F3AF"," ","F","o","c","u","s"," ","B","l","o","c","k",":"," ">> \o title

CommuteTitle == <<"U+1F697"," ","C","o","m","m","u","t","e">>

\* create_event: the service stores a new event under a fresh id; the body
\* the code sends names no attendees.
create_event(stored, title, start, end) ==
    Append(stored, Item(Len(stored) + 1, title, start, end, <<>>))

create_focus_block(stored, title, start, end) ==
    create_event(stored, FocusTitle(title), start, end)

create_commute_block(stored, start, end) ==
    create_event(stored, CommuteTitle, start, end)

\* Titles given to the focus command, attendee lists of the meetings other
\* people put on the calendar, and title fragments given to the decline
\* command.
T_Deploy == <<"D","e","p","l","o","y">>
T_CommutePrep == <<"C","o","m","m","u","t","e"," ","p","r","e","p">>
FocusArgs == {T_Deploy, T_CommutePrep}
Me(status) == [self |-> TRUE, responseStatus |-> status]
Other(status) == [self |-> FALSE, responseStatus |-> status]
InviteAttendees ==
    { << Other(ACCEPTED), Me(NEEDS_ACTION) >>,
      << Me(TENTATIVE) >>,
      << Other(ACCEPTED) >> }
DeclineArgs == { <<"S","y","n","c">>, <<"f","o","c","u","s">> }

CreateFocusBlock ==
    /\ result = NoResult
    /\ Len(store) < MaxEvents
    /\ \E title \in FocusArgs :
          store' = create_focus_block(store, title, On(9, 0), On(9, 30))
    /\ UNCHANGED <<events, today, result, prev>>

CreateCommuteBlock ==
    /\ result = NoResult
    /\ Len(store) < MaxEvents
    /\ store' = create_commute_block(store, On(8, 45), On(9, 0))
    /\ UNCHANGED <<events, today, result, prev>>

\* Somebody's meeting appears on the calendar.
Invite ==
    /\ result = NoResult
    /\ Len(store) < MaxEvents
    /\ \E attendees \in InviteAttendees :
          store' = Append(store, Item(Len(store) + 1, T_TeamSync,
                                      On(9, 30), On(10, 5), attendees))
    /\ UNCHANGED <<events, today, result, prev>>

\* cmd_decline: the event is looked up by title and, if found, declined.
Decline ==
    \E title \in DeclineArgs, outcome \in Outcomes :
        LET event == find_event_by_title(store, title) IN
        /\ result = NoResult
        /\ IF event = <<>>
           THEN /\ result' = [NoResult EXCEPT !.op = "cmd_decline"]
                /\ UNCHANGED store
           ELSE LET r == decline_event(store, event[1].id, outcome) IN
                /\ result' = [NoResult EXCEPT
                                 !.op = "cmd_decline", !.input = event,
                                 !.found = TRUE, !.target = event[1].id,
                                 !.returned = r.returned]
                /\ store' = r.stored
        /\ UNCHANGED <<events, today, prev>>

NextGateway ==
    \/ CreateFocusBlock
    \/ CreateCommuteBlock
    \/ Invite
    \/ Decline
    \/ Return
SpecGateway == Init /\ [][NextGateway]_vars

\* C14: is_focus_block and is_commute are never both true of an event, so
\* every event is exactly one of focus block, commute block and meeting.
C14_FocusAndCommuteDisjoint ==
    \A k \in 1..Len(store) :
        ~(is_focus_block(_parse_event(store[k]))
          /\ is_commute(_parse_event(store[k])))

\* C16: whenever decline_event returned True, the stored response status of
\* the user for that event is DECLINED and today's events without the
\* declined ones no longer hold it.
C16_DeclinedAfterTrue ==
    (result.op = "cmd_decline" /\ result.found /\ result.returned) =>
        /\ \A k \in 1..Len(store) :
              store[k].id = result.target =>
                  _parse_event(store[k]).status = DECLINED
        /\ \A e \in Range(get_today_events(store, FALSE)) :
              e.id # result.target

=============================================================================
